---- MODULE Spec2Model ----
(***************************************************************************)
(* State-machine model of src/app.py: a Streamlit script that keeps a      *)
(* shared glossary (glossary.csv) and a style guide (style_guide.txt),     *)
(* merges uploaded CSV tables into the glossary, and sends English text    *)
(* with both artifacts to an external completion service.                  *)
(*                                                                         *)
(* Streamlit re-executes the whole script top to bottom after every user   *)
(* interaction.  One script run is modelled as the sequence of steps       *)
(*   session (l.111-120) -> style (l.128-132) -> gsave (l.136-147) ->      *)
(*   import (l.151-182) -> text (l.203) -> translate (l.207-213) -> idle;  *)
(* a user interaction is possible only in "idle".  st.rerun() (l.178)      *)
(* abandons the current run and starts a fresh one with no button pressed. *)
(*                                                                         *)
(* Glossary cells are strings or the missing value NaN.  Texts that are    *)
(* stripped (input text, completion text) are sequences of characters.     *)
(* The notepad (l.54-63, l.185-196) touches none of the modelled state and *)
(* is left out.                                                            *)
(*                                                                         *)
(* Two specifications share the script steps and differ in the user        *)
(* interactions they offer: Spec (uploads, glossary saves) for the glossary *)
(* store, SpecT (text edits, translate, style and glossary saves) for the  *)
(* prompt builder and the style guide store.                               *)
(***************************************************************************)
EXTENDS Integers, Sequences, FiniteSets, TLC

\* ------------------------------------------------------------------ bounds
MaxEditRows   == 2   \* rows of a table produced with the data editor
MaxUploadRows == 2   \* rows of an uploaded CSV table
MaxTextLen    == 2   \* characters of an input text / completion text

\* --------------------------------------------------------------- constants
NaN == "<NaN>"       \* pandas' missing value (never a term)

DefaultStyle == "DEFAULT_STYLE"         \* the fixed sentence of l.42
Placeholder  == "No specific terms provided."                    \* l.89

\* --------------------------------------------------------- input universes
Range(s) == {s[i] : i \in DOMAIN s}

SeqsUpTo(S, n) == UNION {[1..k -> S] : k \in 0..n}

\* rows a user can leave in the data editor when the source column is text
EditorRows == { <<"hello", "a">>, <<"world", "a">>,
                <<"hello", NaN>>, <<NaN, "a">>, <<NaN, NaN>> }

\* lines of an uploaded CSV file ("" is an empty field)
UploadCsvRows == { <<"Hello", "b">>, <<"world", "b">>,
                   <<"", "b">>, <<"hello", "">> }

StyleTexts == {"S1", "S2"}

TextChars  == {" ", "a"}
Whitespace == {" "}
Texts      == SeqsUpTo(TextChars, MaxTextLen)

\* ------------------------------------------------------------ str.lower()
LowerTable == [Hello |-> "hello", hello |-> "hello", world |-> "world",
               a |-> "a", b |-> "b"]

Lower(s) == IF s = NaN THEN NaN
            ELSE IF s \in DOMAIN LowerTable THEN LowerTable[s] ELSE s

\* ---------------------------------------------------------- str.strip()
RECURSIVE LStrip(_)
LStrip(t) == IF t # <<>> /\ Head(t) \in Whitespace THEN LStrip(Tail(t)) ELSE t

RECURSIVE RStrip(_)
RStrip(t) == IF t # <<>> /\ t[Len(t)] \in Whitespace
             THEN RStrip(SubSeq(t, 1, Len(t) - 1)) ELSE t

Strip(t) == RStrip(LStrip(t))

\* ----------------------------------------------- CSV writing and reading
\* DataFrame.to_csv: a missing cell is written as an empty field
ToCsvField(v) == IF v = NaN THEN "" ELSE v

ToCsv(df) == [i \in DOMAIN df |-> <<ToCsvField(df[i][1]), ToCsvField(df[i][2])>>]

\* pandas.read_csv: an empty field (and the NA literals) is read as missing
NaLiterals == {"", "NA", "N/A", "NaN", "nan", "null", "NULL"}

ReadCsvField(f) == IF f \in NaLiterals THEN NaN ELSE f

ReadCsv(rows) == [i \in DOMAIN rows |->
                    <<ReadCsvField(rows[i][1]), ReadCsvField(rows[i][2])>>]

\* read_csv gives a column the dtype object (text) when it has no rows or
\* holds at least one string, and float64 when every cell of it is missing.
\* Series.str raises AttributeError on a float64 column.
SrcIsText(df) == df = <<>> \/ \E i \in DOMAIN df : df[i][1] # NaN

\* ------------------------------------------------------ dropna variants
\* dropna(subset=['영어','한글'], how='all'): drop rows with BOTH missing
DropNaAll(df) == SelectSeq(df, LAMBDA r : ~(r[1] = NaN /\ r[2] = NaN))

\* dropna(subset=['영어','한글'], how='any'): drop rows with EITHER missing
DropNaAny(df) == SelectSeq(df, LAMBDA r : r[1] # NaN /\ r[2] # NaN)

\* ----------------------------------------------------------- persistence
NoFile == [exists |-> FALSE, rows |-> <<>>]
CsvFile(rows) == [exists |-> TRUE, rows |-> rows]

NoStyleFile == [exists |-> FALSE, text |-> ""]
StyleFile(s) == [exists |-> TRUE, text |-> s]

\* load_glossary: create a header-only file when absent, then read it
LoadGlossary(file) ==
  LET f == IF file.exists THEN file ELSE CsvFile(<<>>)
  IN  [file |-> f, df |-> ReadCsv(f.rows)]

\* save_glossary
SaveGlossary(df) == CsvFile(ToCsv(df))

\* variant: the default is returned without being written
LoadStyleGuide_NoPersist(file) ==
  [file |-> file, value |-> IF file.exists THEN file.text ELSE DefaultStyle]

\* load_style_guide: write the default when absent, then read the file
LoadStyleGuide(file) ==
  LET f == IF file.exists THEN file ELSE StyleFile(DefaultStyle)
  IN  [file |-> f, value |-> f.text]

\* save_style_guide
SaveStyleGuide(s) == StyleFile(s)

\* ------------------------------------------- translate_with_openai (l.67)
\* values a Python call can return: None, or a string
PyNone     == [kind |-> "none", val |-> <<>>]
PyStr(t)   == [kind |-> "str", val |-> t]
NotCalled  == [kind |-> "not_called", val |-> <<>>]

\* variant: the returned value is stored without the test of l.210
Truthy_Unchecked(v) == TRUE

\* bool(x) of a returned value / of a string
Truthy(v) == v.kind = "str" /\ v.val # <<>>

NoRequest == [made |-> FALSE, system |-> <<>>, user |-> <<>>]

\* what the completion service does with one request
ApiOutcomes == {[kind |-> "raise", content |-> <<>>],          \* any exception
                [kind |-> "null_content", content |-> <<>>]}   \* content is None
               \cup {[kind |-> "ok", content |-> t] : t \in Texts}

\* variant: a row is listed when either cell is present
GlossaryRowIncluded_Either(r) == r[1] # NaN \/ r[2] # NaN

\* l.73: the filter of the list comprehension
GlossaryRowIncluded(r) == r[1] # NaN /\ r[2] # NaN

\* l.73: f"- {row['영어']}: {row['한글']}"
FormatLine(r) == <<"- ", r[1], ": ", r[2]>>

RECURSIVE JoinLines(_)
JoinLines(lines) ==
  IF lines = <<>> THEN <<>>
  ELSE IF Len(lines) = 1 THEN lines[1]
  ELSE lines[1] \o <<"\n">> \o JoinLines(Tail(lines))

RECURSIVE GlossaryLines(_)
GlossaryLines(glossary) ==
  IF glossary = <<>> THEN <<>>
  ELSE IF GlossaryRowIncluded(Head(glossary))
       THEN <<FormatLine(Head(glossary))>> \o GlossaryLines(Tail(glossary))
       ELSE GlossaryLines(Tail(glossary))

\* l.73
GlossaryText(glossary) == JoinLines(GlossaryLines(glossary))

\* l.76-91: the f-string, as the sequence of its fixed and inserted pieces
SystemPrompt(style_guide_, glossary) ==
  LET glossary_text == GlossaryText(glossary)
  IN  <<"You are an expert translator. [rules 1-2]",
        "--- STYLE GUIDE ---", style_guide_, "--- END STYLE GUIDE ---",
        "[rule 3]", "--- GLOSSARY ---">>
      \o (IF glossary_text # <<>> THEN glossary_text ELSE <<Placeholder>>)
      \o <<"--- END GLOSSARY ---">>

\* variant: the text is tested without strip()
TextIsBlank_NoStrip(text) == text = <<>>

\* l.68: if not text.strip()
TextIsBlank(text) == Strip(text) = <<>>

\* l.67-106.  outcome is what the service does if it is called.
TranslateWithOpenAI(text, glossary, style_guide_, outcome) ==
  IF TextIsBlank(text)
  THEN [result |-> PyStr(<<>>), request |-> NoRequest, error |-> FALSE]
  ELSE LET req == [made |-> TRUE,
                   system |-> SystemPrompt(style_guide_, glossary),
                   user |-> text]
       IN  IF outcome.kind = "ok"
           THEN [result |-> PyStr(Strip(outcome.content)),
                 request |-> req, error |-> FALSE]
           ELSE [result |-> PyNone, request |-> req, error |-> TRUE]

\* ------------------------------------------------ bulk import (l.157-182)
NoUpload == [kind |-> "none", has_src |-> FALSE, has_tgt |-> FALSE, rows |-> <<>>]

Unparsable == [kind |-> "unparsable", has_src |-> FALSE, has_tgt |-> FALSE,
               rows |-> <<>>]

UploadTable(s, t, rows) == [kind |-> "table", has_src |-> s, has_tgt |-> t,
                            rows |-> rows]

\* files the user can put in the uploader: a file read_csv cannot parse,
\* tables lacking a required column, and tables with both columns
Uploads ==
  {Unparsable}
  \cup {UploadTable(s, t, r) : s \in BOOLEAN, t \in BOOLEAN,
                              r \in {<<>>, << <<"world", "b">> >>}}
  \cup {UploadTable(TRUE, TRUE, r) : r \in SeqsUpTo(UploadCsvRows, MaxUploadRows)}

\* variant: "and" in place of "or" in l.161
ColumnsMissing_Both(up) == ~up.has_src /\ ~up.has_tgt

\* l.161
ColumnsMissing(up) == ~up.has_src \/ ~up.has_tgt

\* l.165: set(current_df['영어'].str.lower().dropna())
ExistingWords(current_df) == {Lower(r[1]) : r \in Range(current_df)} \ {NaN}

\* l.168: new_df[~new_df['영어'].str.lower().isin(existing_words)]
UniqueNewRows(new_df, existing_words) ==
  SelectSeq(new_df, LAMBDA r : Lower(r[1]) \notin existing_words)

NoImport == [status |-> "none", added |-> 0, skipped |-> 0]

ImportError(kind) == [status |-> kind, added |-> 0, skipped |-> 0]

\* l.158-182 on the session glossary current_df, whose source column has
\* text dtype iff src_text_.  The result names the message shown, the two
\* counts (meaningful for "success" and "info" only), the glossary to keep
\* and whether it is written and the script rerun.
BulkImport(current_df, src_text_, up) ==
  IF up.kind = "unparsable"                                   \* l.159 raises
  THEN [msg |-> ImportError("error_exception"), df |-> current_df, write |-> FALSE]
  ELSE IF ColumnsMissing(up)                                  \* l.161-162
  THEN [msg |-> ImportError("error_columns"), df |-> current_df, write |-> FALSE]
  ELSE LET raw == ReadCsv(up.rows)
           new_df == DropNaAny(raw)                           \* l.167
       IN  IF ~src_text_ \/ ~SrcIsText(raw)        \* l.165 / l.168: .str raises
           THEN [msg |-> ImportError("error_exception"), df |-> current_df,
                 write |-> FALSE]
           ELSE LET unique_new_rows ==
                      UniqueNewRows(new_df, ExistingWords(current_df))
                    added_count == Len(unique_new_rows)        \* l.170
                    skipped_count == Len(new_df) - added_count \* l.171
                IN  IF added_count > 0                         \* l.173-178
                    THEN [msg |-> [status |-> "success", added |-> added_count,
                                   skipped |-> skipped_count],
                          df |-> current_df \o unique_new_rows, write |-> TRUE]
                    ELSE [msg |-> [status |-> "info", added |-> added_count,
                                   skipped |-> skipped_count],
                          df |-> current_df, write |-> FALSE]

\* ------------------------------------------------ data editor (l.136-142)
\* tables the editor can return: any rows when the source column is text;
\* when it is float64 the cells of that column stay missing
EditedTables(src_text_) ==
  IF src_text_ THEN SeqsUpTo(EditorRows, MaxEditRows)
  ELSE SeqsUpTo({r \in EditorRows : r[1] = NaN}, MaxEditRows)

\* --------------------------------------------------------- script order
\* variant: the upload block placed before the glossary save
ScriptOrder_ImportFirst ==
  <<"session", "style", "import", "gsave", "text", "translate">>

\* the order in which one run executes the blocks of the script
ScriptOrder == <<"session", "style", "gsave", "import", "text", "translate">>

\* the block after p, "idle" after the last one
After(p) ==
  LET i == CHOOSE k \in DOMAIN ScriptOrder : ScriptOrder[k] = p
  IN  IF i < Len(ScriptOrder) THEN ScriptOrder[i + 1] ELSE "idle"

\* ================================================================= state
VARIABLES
  pc,                 \* position of the script run, "idle" between runs
  button,             \* the button whose st.button() is True in this run
  trigger,            \* the user interaction that started this chain of runs
  reopened,           \* the page has been opened again at least once
  glossary_file,      \* glossary.csv
  style_file,         \* style_guide.txt
  initialized,        \* the keys of l.111-120 are in st.session_state
  glossary_df,        \* st.session_state.glossary_df
  src_text,           \* its source column has dtype object (not float64)
  style_guide,        \* st.session_state.style_guide
  english_text,       \* st.session_state.english_text
  korean_translation, \* st.session_state.korean_translation
  uploaded,           \* the file held by st.file_uploader
  text_input,         \* the content of the input text area
  import_msg,         \* message and counts of this run's bulk import
  result,             \* translation_result of this run
  request,            \* the request sent to the completion service in this run
  api_outcome,        \* what the service did with it ("not_called" if none)
  error_shown         \* st.error of l.105 was shown in this run

vars == <<pc, button, trigger, reopened, glossary_file, style_file,
          initialized, glossary_df, src_text, style_guide, english_text,
          korean_translation, uploaded, text_input, import_msg, result,
          request, api_outcome, error_shown>>

files   == <<glossary_file, style_file>>
session == <<initialized, glossary_df, src_text, style_guide, english_text,
             korean_translation>>
reports == <<import_msg, result, request, api_outcome, error_shown>>

\* the state before the first run of the first session, with the files that
\* session finds: none, or ones an earlier session left
InitWith(glossary_files, style_files) ==
  /\ pc = ScriptOrder[1]
  /\ button = "none"
  /\ trigger = "open"
  /\ reopened = FALSE
  /\ glossary_file \in glossary_files
  /\ style_file \in style_files
  /\ initialized = FALSE
  /\ glossary_df = <<>>
  /\ src_text = TRUE
  /\ style_guide = ""
  /\ english_text = <<>>
  /\ korean_translation = <<>>
  /\ uploaded = NoUpload
  /\ text_input = <<>>
  /\ import_msg = NoImport
  /\ result = NotCalled
  /\ request = NoRequest
  /\ api_outcome = "not_called"
  /\ error_shown = FALSE

\* -------------------------------------------------------- user interactions
\* every interaction starts a script run with fresh messages
StartRun(t, b) ==
  /\ pc = "idle"
  /\ pc' = ScriptOrder[1]
  /\ trigger' = t
  /\ button' = b
  /\ import_msg' = NoImport
  /\ result' = NotCalled
  /\ request' = NoRequest
  /\ api_outcome' = "not_called"
  /\ error_shown' = FALSE

UploadFile ==
  /\ StartRun("upload", "none")
  /\ \E up \in Uploads : uploaded' = up
  /\ UNCHANGED <<reopened, files, session, text_input>>

RemoveFile ==
  /\ uploaded # NoUpload
  /\ StartRun("remove", "none")
  /\ uploaded' = NoUpload
  /\ UNCHANGED <<reopened, files, session, text_input>>

ClickSaveGlossary ==
  /\ StartRun("save_glossary", "save_glossary")
  /\ UNCHANGED <<reopened, files, session, uploaded, text_input>>

ClickSaveStyle ==
  /\ StartRun("save_style", "save_style")
  /\ UNCHANGED <<reopened, files, session, uploaded, text_input>>

EditText ==
  /\ StartRun("edit_text", "none")
  /\ \E t \in Texts : t # text_input /\ text_input' = t
  /\ UNCHANGED <<reopened, files, session, uploaded>>

ClickTranslate ==
  /\ StartRun("translate", "translate")
  /\ UNCHANGED <<reopened, files, session, uploaded, text_input>>

\* the page is opened again: empty session state, empty widgets, same files
NewSession ==
  /\ StartRun("open", "none")
  /\ reopened' = TRUE
  /\ initialized' = FALSE
  /\ glossary_df' = <<>>
  /\ src_text' = TRUE
  /\ style_guide' = ""
  /\ english_text' = <<>>
  /\ korean_translation' = <<>>
  /\ uploaded' = NoUpload
  /\ text_input' = <<>>
  /\ UNCHANGED files

\* ------------------------------------------------------------ script steps
\* l.111-120
SessionStep ==
  /\ pc = "session"
  /\ pc' = After("session")
  /\ IF initialized
     THEN UNCHANGED <<files, session>>
     ELSE LET g == LoadGlossary(glossary_file)
              s == LoadStyleGuide(style_file)
          IN  /\ glossary_file' = g.file
              /\ glossary_df' = g.df
              /\ src_text' = SrcIsText(g.df)
              /\ style_file' = s.file
              /\ style_guide' = s.value
              /\ english_text' = <<>>
              /\ korean_translation' = <<>>
              /\ initialized' = TRUE
  /\ UNCHANGED <<button, trigger, reopened, uploaded, text_input, reports>>

\* l.128-132
StyleStep ==
  /\ pc = "style"
  /\ pc' = After("style")
  /\ IF button = "save_style"
     THEN \E edited_style \in StyleTexts :
            /\ style_file' = SaveStyleGuide(edited_style)
            /\ style_guide' = edited_style
     ELSE UNCHANGED <<style_file, style_guide>>
  /\ UNCHANGED <<button, trigger, reopened, glossary_file, initialized,
                 glossary_df, src_text, english_text, korean_translation,
                 uploaded, text_input, reports>>

\* l.136-147
GlossarySaveStep ==
  /\ pc = "gsave"
  /\ pc' = After("gsave")
  /\ IF button = "save_glossary"
     THEN \E edited_df \in EditedTables(src_text) :
            LET cleaned_df == DropNaAll(edited_df)
            IN  /\ glossary_file' = SaveGlossary(cleaned_df)
                /\ glossary_df' = cleaned_df
     ELSE UNCHANGED <<glossary_file, glossary_df>>
  /\ UNCHANGED <<button, trigger, reopened, style_file, initialized, src_text,
                 style_guide, english_text, korean_translation, uploaded,
                 text_input, reports>>

\* l.151-182
ImportStep ==
  /\ pc = "import"
  /\ IF uploaded.kind = "none"
     THEN /\ pc' = After("import")
          /\ UNCHANGED <<button, glossary_file, glossary_df, import_msg>>
     ELSE LET r == BulkImport(glossary_df, src_text, uploaded)
          IN  /\ import_msg' = r.msg
              /\ glossary_df' = r.df
              /\ IF r.write
                 THEN /\ glossary_file' = SaveGlossary(r.df)
                      /\ button' = "none"                        \* st.rerun()
                      /\ pc' = ScriptOrder[1]
                 ELSE /\ UNCHANGED <<glossary_file, button>>
                      /\ pc' = After("import")
  /\ UNCHANGED <<trigger, reopened, style_file, initialized, src_text,
                 style_guide, english_text, korean_translation, uploaded,
                 text_input, result, request, api_outcome, error_shown>>

\* l.203
TextStep ==
  /\ pc = "text"
  /\ pc' = After("text")
  /\ english_text' = text_input
  /\ UNCHANGED <<button, trigger, reopened, files, initialized, glossary_df,
                 src_text, style_guide, korean_translation, uploaded,
                 text_input, reports>>

\* l.207-213
TranslateStep ==
  /\ pc = "translate"
  /\ pc' = After("translate")
  /\ IF button = "translate" /\ english_text # <<>>
     THEN \E outcome \in ApiOutcomes :
            LET r == TranslateWithOpenAI(english_text, glossary_df,
                                         style_guide, outcome)
            IN  /\ result' = r.result
                /\ request' = r.request
                /\ api_outcome' = IF r.request.made THEN outcome.kind
                                  ELSE "not_called"
                /\ error_shown' = r.error
                /\ korean_translation' =
                     IF Truthy(r.result) THEN r.result.val
                     ELSE korean_translation
     ELSE UNCHANGED <<result, request, api_outcome, error_shown,
                      korean_translation>>
  /\ button' = "none"                  \* the run is over: no button is pressed
  /\ trigger' = "none"
  /\ UNCHANGED <<reopened, files, initialized, glossary_df, src_text,
                 style_guide, english_text, uploaded, text_input, import_msg>>

\* glossary management: uploads, glossary saves, reopening the page
Init == InitWith({NoFile, CsvFile(<<>>), CsvFile(<< <<"hello", "a">> >>)},
                 {NoStyleFile})

Next == \/ UploadFile \/ RemoveFile \/ ClickSaveGlossary \/ NewSession
        \/ SessionStep \/ StyleStep \/ GlossarySaveStep
        \/ ImportStep \/ TextStep \/ TranslateStep

Spec == Init /\ [][Next]_vars

\* translation: text edits, translate, style and glossary saves, reopening
NextT == \/ EditText \/ ClickTranslate \/ ClickSaveStyle \/ ClickSaveGlossary
         \/ NewSession
         \/ SessionStep \/ StyleStep \/ GlossarySaveStep
         \/ ImportStep \/ TextStep \/ TranslateStep

InitT == InitWith({NoFile, CsvFile(<< <<"hello", "a">> >>)},
                  {NoStyleFile, StyleFile("S1")})

SpecT == InitT /\ [][NextT]_vars

\* ================================================================ claims
Present(v) == v # NaN

BothPresent(r) == Present(r[1]) /\ Present(r[2])

AllWhitespace(t) == \A i \in DOMAIN t : t[i] \in Whitespace

\* no two rows of df have source terms that are equal ignoring case
CaseUnique(df) ==
  \A i, j \in DOMAIN df :
    (i # j /\ Present(df[i][1]) /\ Present(df[j][1]))
      => Lower(df[i][1]) # Lower(df[j][1])

\* the uploader holds a table with both required columns
GoodUpload == uploaded.kind = "table" /\ uploaded.has_src /\ uploaded.has_tgt

\* the rows of the uploaded table that have both fields
IncomingValid == SelectSeq(ReadCsv(uploaded.rows), BothPresent)

\* the rows of incoming whose source term matches no entry of existing
NotInExisting(existing, incoming) ==
  SelectSeq(incoming, LAMBDA r :
    \A i \in DOMAIN existing :
      ~Present(existing[i][1]) \/ Lower(existing[i][1]) # Lower(r[1]))

\* source term s is matched, ignoring case, by some row of df
Matched(s, df) == \E i \in DOMAIN df : Present(df[i][1]) /\ Lower(df[i][1]) = Lower(s)

\* the pieces of a text between its "\n" separators
RECURSIVE SplitLines(_)
SplitLines(toks) ==
  IF \A i \in DOMAIN toks : toks[i] # "\n" THEN <<toks>>
  ELSE LET k == CHOOSE i \in DOMAIN toks :
                  toks[i] = "\n" /\ \A j \in 1..(i - 1) : toks[j] # "\n"
       IN  <<SubSeq(toks, 1, k - 1)>> \o SplitLines(SubSeq(toks, k + 1, Len(toks)))

\* C1: a bulk import applied to a session glossary with no two source terms
\* equal ignoring case leaves the session glossary and the persisted file with
\* no two source terms equal ignoring case.
C1_ImportKeepsCaseUnique ==
  [][(pc = "import" /\ uploaded.kind # "none" /\ CaseUnique(glossary_df))
       => (CaseUnique(glossary_df') /\ CaseUnique(ReadCsv(glossary_file'.rows)))]_vars

\* C2: after a glossary save and after a bulk import that writes the file,
\* every row of the persisted glossary has both the source and the target term.
C2_PersistedRowsComplete ==
  [][((pc = "gsave" /\ button = "save_glossary")
       \/ (pc = "import" /\ import_msg'.status = "success"))
       => \A i \in DOMAIN glossary_file'.rows :
            BothPresent(ReadCsv(glossary_file'.rows)[i])]_vars

\* C3: for every session glossary and every uploaded table with both columns,
\* the import keeps the existing entries, appends in order the complete
\* incoming rows whose lower-cased source term matches no existing entry, and
\* reports added_count and skipped_count, which sum to the number of complete
\* incoming rows.
C3_ImportMergesAndCounts ==
  [][(pc = "import" /\ GoodUpload)
       => LET appended == NotInExisting(glossary_df, IncomingValid)
          IN  /\ glossary_df' = glossary_df \o appended
              /\ import_msg'.status \in {"success", "info"}
              /\ import_msg'.added = Len(appended)
              /\ import_msg'.skipped = Len(IncomingValid) - Len(appended)
              /\ import_msg'.added + import_msg'.skipped = Len(IncomingValid)]_vars

\* The statement of C3 restricted to imports in which no exception is raised
\* (checked for reference; it is not the claim).
ImportMergesAndCountsUnlessRaised ==
  [][(pc = "import" /\ GoodUpload /\ import_msg'.status # "error_exception")
       => LET appended == NotInExisting(glossary_df, IncomingValid)
          IN  /\ glossary_df' = glossary_df \o appended
              /\ import_msg'.status \in {"success", "info"}
              /\ import_msg'.added = Len(appended)
              /\ import_msg'.skipped = Len(IncomingValid) - Len(appended)
              /\ (appended # <<>> =>
                    glossary_file' = CsvFile(ToCsv(glossary_df \o appended)))
              /\ (appended = <<>> => glossary_file' = glossary_file)]_vars

\* C4: importing the same table a second time, against the glossary the first
\* import produced, yields added_count = 0 and changes neither the session
\* glossary nor the file.
C4_SecondImportAddsNothing ==
  (pc = "import" /\ GoodUpload)
    => LET first  == BulkImport(glossary_df, src_text, uploaded)
           second == BulkImport(first.df, src_text, uploaded)
       IN  /\ second.msg.status = "info"
           /\ second.msg.added = 0
           /\ second.df = first.df
           /\ ~second.write

\* The statement of C4 restricted to first imports in which no exception is
\* raised (checked for reference; it is not the claim).
SecondImportAddsNothingUnlessRaised ==
  (pc = "import" /\ GoodUpload)
    => LET first  == BulkImport(glossary_df, src_text, uploaded)
           second == BulkImport(first.df, src_text, uploaded)
       IN  first.msg.status # "error_exception"
             => /\ second.msg.status = "info"
                /\ second.msg.added = 0
                /\ second.df = first.df
                /\ ~second.write

\* C5: for an input text that is empty or only whitespace, whatever the
\* glossary and the style guide, translate_with_openai returns the empty
\* string and sends no request to the completion service (for every such
\* text with the session's glossary and style guide wherever the translate
\* handler is reached, and for the call the handler makes).
C5_BlankTextShortCircuits ==
  /\ pc = "translate"
       => \A t \in SeqsUpTo(Whitespace, MaxTextLen) : \A o \in ApiOutcomes :
            LET r == TranslateWithOpenAI(t, glossary_df, style_guide, o)
            IN  r.result = PyStr(<<>>) /\ ~r.request.made /\ ~r.error
  /\ (result.kind # "not_called" /\ AllWhitespace(english_text))
       => (result = PyStr(<<>>) /\ ~request.made /\ api_outcome = "not_called")

C5_Witness ==
  /\ pc = "idle" /\ result.kind # "not_called"
  /\ english_text # <<>> /\ AllWhitespace(english_text)
  /\ result = PyStr(<<>>) /\ ~request.made

\* C6: when the completion call fails during a translate action, the error is
\* reported, the returned value is None (not the empty string), and the input
\* text, the displayed translation, the glossary and the style guide of the
\* session are unchanged by the action.
C6_FailedCallPreservesSession ==
  [][(pc = "translate" /\ api_outcome' \in {"raise", "null_content"})
       => /\ error_shown'
          /\ result' = PyNone
          /\ result' # PyStr(<<>>)
          /\ english_text' = english_text
          /\ korean_translation' = korean_translation
          /\ glossary_df' = glossary_df
          /\ style_guide' = style_guide]_vars

C6_Witness ==
  /\ pc = "idle" /\ api_outcome = "raise" /\ error_shown
  /\ result = PyNone /\ korean_translation # <<>>

\* C7: when the uploaded table lacks a required column, an error is reported
\* and the import changes neither the session glossary nor the file.
C7_MissingColumnsAbortImport ==
  [][(pc = "import" /\ uploaded.kind = "table"
        /\ (~uploaded.has_src \/ ~uploaded.has_tgt))
       => /\ import_msg'.status = "error_columns"
          /\ glossary_df' = glossary_df
          /\ glossary_file' = glossary_file]_vars

C7_Witness ==
  /\ import_msg.status = "error_columns"
  /\ uploaded.rows # <<>> /\ ~Matched(uploaded.rows[1][1], glossary_df)

\* C8: for a non-blank input text a request is sent whose instruction string
\* holds, between the GLOSSARY delimiters, one line "- source: target" per
\* glossary entry with both fields, in glossary order, and nothing else (the
\* placeholder when there is no such entry), and holds the style guide between
\* the STYLE GUIDE delimiters.
C8_PromptEmbedsGlossaryAndStyle ==
  /\ (result.kind # "not_called" /\ ~AllWhitespace(english_text)) => request.made
  /\ request.made =>
       LET sys   == request.system
           gs    == CHOOSE i \in DOMAIN sys : sys[i] = "--- GLOSSARY ---"
           ge    == CHOOSE i \in DOMAIN sys : sys[i] = "--- END GLOSSARY ---"
           block == SubSeq(sys, gs + 1, ge - 1)
           valid == SelectSeq(glossary_df, BothPresent)
       IN  /\ IF valid = <<>>
              THEN block = <<Placeholder>>
              ELSE SplitLines(block) =
                     [i \in 1..Len(valid) |->
                        <<"- ", valid[i][1], ": ", valid[i][2]>>]
           /\ \E i \in DOMAIN sys :
                /\ sys[i] = "--- STYLE GUIDE ---"
                /\ sys[i + 1] = style_guide
                /\ sys[i + 2] = "--- END STYLE GUIDE ---"
           /\ request.user = english_text

C8_Witness ==
  /\ request.made
  /\ Len(glossary_df) >= 2
  /\ \E i \in DOMAIN glossary_df : BothPresent(glossary_df[i])
  /\ \E i \in DOMAIN glossary_df : ~BothPresent(glossary_df[i])

\* C9: load_style_guide with no persisted style guide returns the default
\* sentence and persists it; with a persisted value it returns that value and
\* leaves the file as it is (so a second load returns the same string).
C9_LoadStyleGuide ==
  [][(pc = "session" /\ ~initialized)
       => IF style_file.exists
          THEN style_guide' = style_file.text /\ style_file' = style_file
          ELSE style_guide' = DefaultStyle
               /\ style_file' = StyleFile(DefaultStyle)]_vars

C9_Witness ==
  /\ reopened /\ initialized
  /\ style_guide = DefaultStyle /\ style_file = StyleFile(DefaultStyle)

\* C10: a run in which the uploader holds a table with both columns applies
\* the import, after the glossary save of the same run; when the run ends
\* (at its last line or at st.rerun) and the import raised no error, every
\* source term of a complete uploaded row is matched, ignoring case, by an
\* entry of the session glossary and by an entry of the persisted file.
RunEnded == pc = "idle" \/ (pc = "session" /\ import_msg.status = "success")

C10_UploadedTermsPresentAtRunEnd ==
  (RunEnded /\ GoodUpload)
    => /\ import_msg.status # "none"
       /\ import_msg.status \in {"success", "info"}
            => \A i \in DOMAIN IncomingValid :
                 /\ Matched(IncomingValid[i][1], glossary_df)
                 /\ Matched(IncomingValid[i][1], ReadCsv(glossary_file.rows))

C10_Witness ==
  /\ pc = "session" /\ trigger = "save_glossary"
  /\ import_msg.status = "success" /\ GoodUpload

====
